---- MODULE Spec2Model ----
(***************************************************************************)
(* Model of flows/etl_flow.py: the Prefect flow local_db_etl_flow and its  *)
(* tasks connect_db, setup_db_table, extract_data, transform_data and      *)
(* load_data_simulated, run against a PostgreSQL database holding (or not) *)
(* a table sample_data, and a local output file.                           *)
(***************************************************************************)
EXTENDS Integers, Sequences, FiniteSets, TLC

\* Bounds of the model.
MaxRuns == 2        \* flow runs in one behaviour
MaxTime == 2        \* distinct clock readings
MaxPreRows == 2     \* rows of a table that exists before the first run

\* A retry count one too high.
retries_Three == 2 + 1

\* @task(retries=2, ...) on connect_db.
retries == 2

VARIABLES
    pc,            \* position of the flow body
    run,           \* number of the current flow run
    conn,          \* the flow's local variable conn: "None" or "conn"
    connState,     \* the psycopg2 connection: "none", "open" or "closed"
    closeCalls,    \* calls of conn.close() in this run
    attempts,      \* attempts of connect_db in this run
    cursors,       \* cursors opened on the connection and not yet closed
    committed,     \* the committed state of table sample_data
    pending,       \* the table as the connection's open transaction sees it
    rolledBack,    \* conn.rollback() was called by setup_db_table in this run
    raw_data,      \* the flow's local variable raw_data
    transformed_data, \* the flow's local variable transformed_data
    file,          \* output_data.txt: a sequence of [text, run]
    exc,           \* the exception in flight in the flow body, or "none"
    caught,        \* the step whose exception the flow's except clause caught
    called,        \* the tasks called in this run, in order
    log,           \* the flow-level log messages of this run
    outcome,       \* how the last flow call ended: "none", "completed", "raised"
    tableAtStart,  \* history: the table before the first run
    setupReturns   \* history: calls of setup_db_table that returned normally

vars == <<pc, run, conn, connState, closeCalls, attempts, cursors, committed,
          pending, rolledBack, raw_data, transformed_data, file, exc, caught,
          called, log, outcome, tableAtStart, setupReturns>>

----------------------------------------------------------------------------
\* Values of columns and record fields, tagged with their Python type.
\* A float is held in tenths, a timestamp as a clock reading.

NULL == <<"null", 0>>
IntV(n) == <<"int", n>>
StrV(s) == <<"str", s>>
FloatV(tenths) == <<"float", tenths>>
TsV(t) == <<"ts", t>>

\* A Python dict: a sequence of <<key, value>> in insertion order.
DictHas(d, k) == \E i \in DOMAIN d : d[i][1] = k

DictKeys(d) == {d[i][1] : i \in DOMAIN d}

DictGet(d, k, default) ==
    IF DictHas(d, k) THEN d[CHOOSE i \in DOMAIN d : d[i][1] = k][2]
    ELSE default

DictSet(d, k, v) ==
    IF DictHas(d, k)
    THEN [i \in DOMAIN d |-> IF d[i][1] = k THEN <<k, v>> ELSE d[i]]
    ELSE Append(d, <<k, v>>)

\* dict(zip(colnames, row))
RECURSIVE DictZip(_, _)
DictZip(colnames, row) ==
    IF colnames = <<>> \/ row = <<>> THEN <<>>
    ELSE LET n == IF Len(colnames) < Len(row) THEN Len(colnames) ELSE Len(row)
         IN  DictSet(DictZip(SubSeq(colnames, 1, n - 1), SubSeq(row, 1, n - 1)),
                     colnames[n], row[n])

----------------------------------------------------------------------------
\* The table sample_data.

NoTable == [exists |-> FALSE, cols |-> <<>>, rows |-> <<>>]

\* CREATE TABLE sample_data (id, name, value, created_at)
CreatedCols == <<"id", "name", "value", "created_at">>

CreateTable == [exists |-> TRUE, cols |-> CreatedCols, rows |-> <<>>]

\* users_data
users_data == << <<"Alice", 100>>, <<"Bob", 150>>, <<"Charlie", 200>> >>

\* INSERT INTO sample_data (name, value) VALUES (%s, %s): id is the serial,
\* created_at defaults to the transaction's CURRENT_TIMESTAMP.
InsertRow(table, user, now) ==
    [table EXCEPT !.rows =
        Append(@, <<IntV(Len(@) + 1), StrV(user[1]), IntV(user[2]), TsV(now)>>)]

\* cursor.executemany(insert_query, users_data), stopped after k rows.
RECURSIVE ExecuteMany(_, _, _)
ExecuteMany(table, k, now) ==
    IF k = 0 THEN table
    ELSE InsertRow(ExecuteMany(table, k - 1, now), users_data[k], now)

\* A rollback that keeps what the transaction did.
Rollback_Commits(c, reached) == [committed |-> reached, pending |-> reached]

\* conn.rollback(): the open transaction's changes are discarded.
Rollback(c, reached) == [committed |-> c, pending |-> c]

\* conn.commit(): the open transaction's changes become the committed state.
Commit(c, reached) == [committed |-> reached, pending |-> reached]

\* Creation without regard to the existence check.
NeedsCreate_Always(table_exists) == TRUE

\* if not table_exists:
NeedsCreate(table_exists) == ~table_exists

\* finally: cursor.close() in setup_db_table
SetupFinallyClosesCursor(raised) == TRUE

\* The points at which setup_db_table can fail, given what the check finds.
SetupFailPoints(p) ==
    IF p.exists THEN {"none", "cursor", "check"}
    ELSE {"none", "cursor", "check", "create", "seed", "commit"}

\* setup_db_table(conn), failing at failAt (after k seed rows when the
\* failure is in executemany) or not at all: the committed table, the
\* transaction's view, the cursors left open, and whether it rolled back
\* and raised.
setup_db_table(c, p, failAt, k, now) ==
    IF failAt = "cursor"
    THEN [committed |-> c, pending |-> p, cursors |-> 0,
          rolledBack |-> FALSE, raised |-> TRUE]
    ELSE LET table_exists == p.exists
             raised == failAt /= "none"
             reached ==
                 IF failAt = "check" \/ ~NeedsCreate(table_exists) THEN p
                 ELSE IF failAt = "create" THEN p
                 ELSE IF failAt = "seed" THEN ExecuteMany(CreateTable, k, now)
                 ELSE ExecuteMany(CreateTable, Len(users_data), now)
             db == IF raised THEN Rollback(c, reached)
                   ELSE IF NeedsCreate(table_exists) THEN Commit(c, reached)
                   ELSE [committed |-> c, pending |-> p]
         IN  [committed |-> db.committed, pending |-> db.pending,
              cursors |-> IF SetupFinallyClosesCursor(raised) THEN 0 ELSE 1,
              rolledBack |-> raised, raised |-> raised]

\* result = [dict(zip(colnames, row)) for row in data]
extract_data(p) == [i \in DOMAIN p.rows |-> DictZip(p.cols, p.rows[i])]

----------------------------------------------------------------------------
\* transform_data

\* x * 1.1 is defined for numbers and raises TypeError otherwise.
CanMul(v) == v[1] \in {"int", "float"}

\* x * 1.1, the float held in tenths (an int in units, a float in tenths).
Mul1_1(v) == IF v[1] = "int" THEN FloatV(v[2] * 11) ELSE FloatV((v[2] * 11) \div 10)

\* record.get('value', 0)
GetValue(record) == DictGet(record, "value", IntV(0))

\* The body of the loop of transform_data; time.time() returned t.
TransformRecord(record, t) ==
    DictSet(DictSet(record, "processed_value", Mul1_1(GetValue(record))),
            "processed_at_agent", FloatV(t * 10))

\* The first record on which the loop body raises, or 0.
FirstFailing(data) ==
    IF \E i \in DOMAIN data : ~CanMul(GetValue(data[i]))
    THEN CHOOSE i \in DOMAIN data :
            /\ ~CanMul(GetValue(data[i]))
            /\ \A j \in 1..(i - 1) : CanMul(GetValue(data[j]))
    ELSE 0

\* transform_data(data), time.time() returning ts[i] for record i: the list
\* (mutated in place up to the failing record) and whether it raised.
transform_data(data, ts) ==
    LET f == FirstFailing(data)
    IN  [raised |-> f /= 0,
         data |-> [i \in DOMAIN data |->
                     IF f = 0 \/ i < f THEN TransformRecord(data[i], ts[i])
                     ELSE data[i]]]

\* The readings successive calls of time.time() can return for n records.
TimeReadings(n) ==
    {ts \in [1..n -> 1..MaxTime] : \A i \in 1..n : \A j \in i..n : ts[i] <= ts[j]}

----------------------------------------------------------------------------
\* load_data_simulated

\* repr of a value, as str(dict) renders it.
Repr(v) ==
    CASE v[1] = "null" -> "None"
      [] v[1] = "int" -> ToString(v[2])
      [] v[1] = "str" -> "'" \o v[2] \o "'"
      [] v[1] = "float" -> ToString(v[2] \div 10) \o "." \o ToString(v[2] % 10)
      [] v[1] = "ts" -> "datetime.datetime(" \o ToString(v[2]) \o ")"

\* str(record)
RECURSIVE StrItems(_)
StrItems(record) ==
    IF record = <<>> THEN ""
    ELSE LET n == Len(record)
             item == "'" \o record[n][1] \o "': " \o Repr(record[n][2])
         IN  IF n = 1 THEN item
             ELSE StrItems(SubSeq(record, 1, n - 1)) \o ", " \o item

Str(record) == "{" \o StrItems(record) \o "}"

\* The file opened in append mode.
OpenFile_Append(content) == content

\* open(output_filename, "w"): the file's content once opened.
OpenFile(content) == <<>>

\* The records written last to first.
WriteLines_Reversed(content, data, n, r) ==
    content \o [i \in 1..n |-> [text |-> Str(data[n + 1 - i]) \o "\n", run |-> r]]

\* for record in data: f.write(str(record) + "\n"), n records written.
WriteLines(content, data, n, r) ==
    content \o [i \in 1..n |-> [text |-> Str(data[i]) \o "\n", run |-> r]]

\* load_data_simulated(data), failing at failAt (with n lines on disk when
\* the failure is in writing) or not at all.
load_data_simulated(content, data, failAt, n, r) ==
    IF failAt = "open" THEN [file |-> content, raised |-> TRUE]
    ELSE IF failAt = "io"
         THEN [file |-> WriteLines(OpenFile(content), data, n, r), raised |-> TRUE]
         ELSE [file |-> WriteLines(OpenFile(content), data, Len(data), r),
               raised |-> FALSE]

----------------------------------------------------------------------------
\* The flow local_db_etl_flow.

NoExc == <<"none", "none">>

\* The tables sample_data that can exist before the first run: the schema
\* the flow creates, one without the column value, and one that already has
\* a column processed_value.
PreSchemas == {CreatedCols, <<"id", "name">>, <<"id", "value", "processed_value">>}

ColumnValues(col, i) ==
    CASE col = "id" -> {IntV(i)}
      [] col = "name" -> {StrV("x")}
      [] col = "value" -> {IntV(100), NULL}
      [] col = "created_at" -> {TsV(0)}
      [] col = "processed_value" -> {IntV(7)}

PreValues == {StrV("x"), IntV(100), NULL, TsV(0), IntV(7)} \cup {IntV(i) : i \in 1..MaxPreRows}

PreRowsAt(cols, i) ==
    {r \in [1..Len(cols) -> PreValues] :
        \A j \in 1..Len(cols) : r[j] \in ColumnValues(cols[j], i)}

PreTables ==
    {[exists |-> TRUE, cols |-> cols, rows |-> rows] :
        <<cols, rows>> \in UNION {UNION {
            {<<c, rs>> : rs \in {x \in [1..n -> UNION {PreRowsAt(c, i) : i \in 1..n}] :
                                    \A i \in 1..n : x[i] \in PreRowsAt(c, i)}}
            : n \in 0..MaxPreRows} : c \in PreSchemas}}

\* The output file is absent or left by an earlier execution of the script.
PreFiles == {<<>>, <<[text |-> "{'id': 9}\n", run |-> 0]>>}

Init ==
    /\ pc = "idle"
    /\ run = 0
    /\ conn = "None"
    /\ connState = "none"
    /\ closeCalls = 0
    /\ attempts = 0
    /\ cursors = 0
    /\ committed \in {NoTable} \cup PreTables
    /\ pending = committed
    /\ rolledBack = FALSE
    /\ raw_data = <<>>
    /\ transformed_data = <<>>
    /\ file \in PreFiles
    /\ exc = NoExc
    /\ caught = NoExc
    /\ called = <<>>
    /\ log = {}
    /\ outcome = "none"
    /\ tableAtStart = committed
    /\ setupReturns = 0

\* local_db_etl_flow() is called: logger.info("Starting..."); conn = None
FlowStart ==
    /\ pc \in {"idle", "done"}
    /\ run < MaxRuns
    /\ run' = run + 1
    /\ pc' = "connect"
    /\ conn' = "None"
    /\ connState' = "none"
    /\ closeCalls' = 0
    /\ attempts' = 0
    /\ cursors' = 0
    /\ pending' = committed
    /\ rolledBack' = FALSE
    /\ raw_data' = <<>>
    /\ transformed_data' = <<>>
    /\ exc' = NoExc
    /\ caught' = NoExc
    /\ called' = <<>>
    /\ log' = {"starting"}
    /\ outcome' = "none"
    /\ UNCHANGED <<committed, file, tableAtStart, setupReturns>>

\* conn = connect_db(): one attempt of the task; a failed attempt is retried
\* by the task runner while retries are left, and raises after the last.
ConnectDb ==
    /\ pc = "connect"
    /\ \E ok \in BOOLEAN :
        /\ attempts' = attempts + 1
        /\ called' = Append(called, "connect_db")
        /\ IF ok
           THEN /\ conn' = "conn"
                /\ connState' = "open"
                /\ pc' = "setup"
                /\ exc' = exc
           ELSE /\ UNCHANGED <<conn, connState>>
                /\ IF attempts + 1 < 1 + retries
                   THEN pc' = "connect" /\ exc' = exc
                   ELSE pc' = "except" /\ exc' = <<"connect_db", "connect">>
    /\ UNCHANGED <<run, closeCalls, cursors, committed, pending, rolledBack,
                   raw_data, transformed_data, file, caught, log, outcome,
                   tableAtStart, setupReturns>>

\* setup_db_table(conn)
SetupDbTable ==
    /\ pc = "setup"
    /\ \E failAt \in SetupFailPoints(pending), k \in 0..(Len(users_data) - 1),
          now \in 1..MaxTime :
        LET r == setup_db_table(committed, pending, failAt, k, now)
        IN  /\ committed' = r.committed
            /\ pending' = r.pending
            /\ cursors' = cursors + r.cursors
            /\ rolledBack' = r.rolledBack
            /\ exc' = IF r.raised THEN <<"setup_db_table", failAt>> ELSE exc
            /\ pc' = IF r.raised THEN "except" ELSE "extract"
            /\ setupReturns' = IF r.raised THEN setupReturns ELSE setupReturns + 1
    /\ called' = Append(called, "setup_db_table")
    /\ UNCHANGED <<run, conn, connState, closeCalls, attempts, raw_data,
                   transformed_data, file, caught, log, outcome, tableAtStart>>

\* raw_data = extract_data(conn)
ExtractData ==
    /\ pc = "extract"
    /\ \E failAt \in (IF pending.exists THEN {"none", "cursor", "execute"}
                      ELSE {"cursor", "execute"}) :
        IF failAt = "none"
        THEN /\ raw_data' = extract_data(pending)
             /\ pc' = "branch"
             /\ exc' = exc
        ELSE /\ raw_data' = raw_data
             /\ pc' = "except"
             /\ exc' = <<"extract_data", failAt>>
    /\ called' = Append(called, "extract_data")
    /\ UNCHANGED <<run, conn, connState, closeCalls, attempts, cursors,
                   committed, pending, rolledBack, transformed_data, file,
                   caught, log, outcome, tableAtStart, setupReturns>>

\* A test for None instead of for emptiness.
Truthy_NotNone(list) == TRUE

\* if raw_data: the truth value of a list
Truthy(list) == list /= <<>>

\* if raw_data: ... else: logger.warning("No data extracted, ...")
FlowBranch ==
    /\ pc = "branch"
    /\ IF Truthy(raw_data)
       THEN pc' = "transform" /\ log' = log
       ELSE pc' = "finally" /\ log' = log \cup {"warning_no_data"}
    /\ UNCHANGED <<run, conn, connState, closeCalls, attempts, cursors,
                   committed, pending, rolledBack, raw_data, transformed_data,
                   file, exc, caught, called, outcome, tableAtStart,
                   setupReturns>>

\* transformed_data = transform_data(raw_data); the records of raw_data are
\* mutated in place.
TransformData ==
    /\ pc = "transform"
    /\ \E ts \in TimeReadings(Len(raw_data)) :
        LET r == transform_data(raw_data, ts)
        IN  /\ raw_data' = r.data
            /\ transformed_data' = IF r.raised THEN transformed_data ELSE r.data
            /\ exc' = IF r.raised THEN <<"transform_data", "TypeError">> ELSE exc
            /\ pc' = IF r.raised THEN "except" ELSE "load"
    /\ called' = Append(called, "transform_data")
    /\ UNCHANGED <<run, conn, connState, closeCalls, attempts, cursors,
                   committed, pending, rolledBack, file, caught, log, outcome,
                   tableAtStart, setupReturns>>

\* load_data_simulated(transformed_data)
LoadDataSimulated ==
    /\ pc = "load"
    /\ \E failAt \in {"none", "open", "io"}, n \in 0..Len(transformed_data) :
        LET r == load_data_simulated(file, transformed_data, failAt, n, run)
        IN  /\ file' = r.file
            /\ exc' = IF r.raised THEN <<"load_data_simulated", failAt>> ELSE exc
            /\ pc' = IF r.raised THEN "except" ELSE "finally"
    /\ called' = Append(called, "load_data_simulated")
    /\ UNCHANGED <<run, conn, connState, closeCalls, attempts, cursors,
                   committed, pending, rolledBack, raw_data, transformed_data,
                   caught, log, outcome, tableAtStart, setupReturns>>

\* An except clause for the connection error only.
Catches_ConnectOnly(e) == e[1] = "connect_db"

\* except Exception as e: every exception of a task is an Exception.
Catches(e) == TRUE

\* The raise of the except clause enabled.
Reraise_Enabled == TRUE

\* # raise   (commented out in the except clause)
Reraise == FALSE

\* except Exception as e: logger.error(...)
FlowExcept ==
    /\ pc = "except"
    /\ IF Catches(exc)
       THEN /\ log' = log \cup {"flow_failed"}
            /\ caught' = exc
            /\ exc' = IF Reraise THEN exc ELSE NoExc
       ELSE UNCHANGED <<log, caught, exc>>
    /\ pc' = "finally"
    /\ UNCHANGED <<run, conn, connState, closeCalls, attempts, cursors,
                   committed, pending, rolledBack, raw_data, transformed_data,
                   file, called, outcome, tableAtStart, setupReturns>>

\* A close without the test of conn.
ConnIsSet_Always(c) == TRUE

\* if conn:
ConnIsSet(c) == c /= "None"

\* finally: if conn: conn.close(); closing ends the open transaction and the
\* connection's cursors. An exception still in flight leaves the flow here.
FlowFinally ==
    /\ pc = "finally"
    /\ IF ConnIsSet(conn)
       THEN /\ connState' = "closed"
            /\ closeCalls' = closeCalls + 1
            /\ pending' = committed
            /\ cursors' = 0
            /\ log' = log \cup {"connection_closed"}
       ELSE UNCHANGED <<connState, closeCalls, pending, cursors, log>>
    /\ IF exc = NoExc
       THEN pc' = "finish" /\ outcome' = outcome
       ELSE pc' = "done" /\ outcome' = "raised"
    /\ UNCHANGED <<run, conn, attempts, committed, rolledBack, raw_data,
                   transformed_data, file, exc, caught, called, tableAtStart,
                   setupReturns>>

\* logger.info("Local DB ETL flow finished.") and the flow returns.
FlowFinish ==
    /\ pc = "finish"
    /\ log' = log \cup {"finished"}
    /\ outcome' = "completed"
    /\ pc' = "done"
    /\ UNCHANGED <<run, conn, connState, closeCalls, attempts, cursors,
                   committed, pending, rolledBack, raw_data, transformed_data,
                   file, exc, caught, called, tableAtStart, setupReturns>>

Next ==
    \/ FlowStart
    \/ ConnectDb
    \/ SetupDbTable
    \/ ExtractData
    \/ FlowBranch
    \/ TransformData
    \/ LoadDataSimulated
    \/ FlowExcept
    \/ FlowFinally
    \/ FlowFinish

Spec == Init /\ [][Next]_vars

----------------------------------------------------------------------------
\* Properties.

CalledSet == {called[i] : i \in DOMAIN called}

LastCalled == IF called = <<>> THEN "none" ELSE called[Len(called)]

StepNames == {"setup_db_table", "extract_data", "transform_data",
              "load_data_simulated"}

\* C1: on every exit path the connection, if connect_db returned one, has
\* been closed exactly once when the run ends, and close is never called
\* when no connection was obtained.
C1_ConnectionClosedOnce ==
    /\ closeCalls <= 1
    /\ conn = "None" => closeCalls = 0 /\ connState = "none"
    /\ pc \in {"finish", "done"} =>
          /\ closeCalls = (IF conn = "conn" THEN 1 ELSE 0)
          /\ conn = "conn" => connState = "closed"

\* A run that obtained a connection, had a step fail, and ended.
C1_Witness ==
    /\ pc = "done"
    /\ conn = "conn"
    /\ caught /= NoExc
    /\ closeCalls = 1

\* C2 as stated: when every connection attempt fails, the error leaves the
\* flow and the run ends as failed.
C2_ConnectFailureIsFatal ==
    (pc = "done" /\ conn = "None" /\ attempts = 1 + retries) => outcome = "raised"

\* C2 as amended: when every connection attempt fails, connect_db raises to
\* the flow body, which catches and logs the error without re-raising; no
\* other task is called, close is not called, and the flow reaches its
\* final 'finished' point and returns normally.
C2_ConnectFailureIsSwallowed ==
    /\ (pc = "except" /\ conn = "None") => exc = <<"connect_db", "connect">>
    /\ (pc = "done" /\ conn = "None") =>
          /\ attempts = 3
          /\ caught = <<"connect_db", "connect">>
          /\ exc = NoExc
          /\ CalledSet = {"connect_db"}
          /\ closeCalls = 0
          /\ {"flow_failed", "finished"} \subseteq log
          /\ outcome = "completed"

\* A run in which all three attempts failed, ended.
C2_Witness ==
    /\ pc = "done"
    /\ conn = "None"
    /\ attempts = 3
    /\ caught[1] = "connect_db"

\* C3: connect_db is attempted at most 3 times per run; a successful
\* attempt is the last one; after 3 failures no further attempt is made, a
\* connection error is raised and no other task is called in that run.
C3_AtMostThreeAttempts ==
    /\ attempts <= 3
    /\ Cardinality({i \in DOMAIN called : called[i] = "connect_db"}) = attempts
    /\ \A i \in 1..attempts : i \in DOMAIN called /\ called[i] = "connect_db"
    /\ conn = "conn" => pc /= "connect"
    /\ (exc[1] = "connect_db" \/ caught[1] = "connect_db") =>
          attempts = 3 /\ conn = "None" /\ CalledSet = {"connect_db"}
    /\ (conn = "None" /\ pc \notin {"idle", "connect"}) =>
          attempts = 3 /\ (exc[1] = "connect_db" \/ caught[1] = "connect_db")

\* Three failed attempts, and the error raised into the flow.
C3_Witness ==
    /\ attempts = 3
    /\ exc = <<"connect_db", "connect">>
    /\ pc = "except"

\* C4: when a step after the connection raises, the flow catches and logs
\* the error, calls no further step, does not re-raise, and the run ends
\* completed, having reached the final 'finished' point.
C4_StepFailureIsSwallowed ==
    /\ exc[1] \in StepNames => pc = "except" /\ LastCalled = exc[1]
    /\ caught[1] \in StepNames =>
          /\ exc = NoExc
          /\ "flow_failed" \in log
          /\ LastCalled = caught[1]
          /\ pc \in {"finally", "finish", "done"}
    /\ pc = "done" => exc = NoExc /\ outcome = "completed" /\ "finished" \in log

\* A run in which transform_data raised, ended as completed.
C4_Witness ==
    /\ pc = "done"
    /\ caught[1] = "transform_data"
    /\ outcome = "completed"

ExtractReturned ==
    /\ "extract_data" \in CalledSet
    /\ exc[1] /= "extract_data"
    /\ caught[1] /= "extract_data"

TransformReturned ==
    /\ "transform_data" \in CalledSet
    /\ exc[1] /= "transform_data"
    /\ caught[1] /= "transform_data"

\* C5: when extract_data returns an empty record set, neither transform_data
\* nor load_data_simulated is called, a warning is logged and the run
\* completes; when it returns a non-empty set, transform_data is called and
\* then load_data_simulated on its result.
C5_EmptyExtractSkips ==
    /\ (ExtractReturned /\ raw_data = <<>>) =>
          /\ "transform_data" \notin CalledSet
          /\ "load_data_simulated" \notin CalledSet
          /\ pc \in {"branch", "finally", "finish", "done"}
          /\ pc /= "branch" => "warning_no_data" \in log
          /\ pc = "done" => outcome = "completed"
    /\ (ExtractReturned /\ raw_data /= <<>>) =>
          /\ "warning_no_data" \notin log
          /\ pc \notin {"branch", "transform"} => "transform_data" \in CalledSet
          /\ (TransformReturned /\ pc /= "load") =>
                "load_data_simulated" \in CalledSet
    /\ "transform_data" \in CalledSet => ExtractReturned
    /\ "load_data_simulated" \in CalledSet =>
          /\ TransformReturned
          /\ SubSeq(called, Len(called) - 1, Len(called)) =
                <<"transform_data", "load_data_simulated">>
          /\ transformed_data = raw_data
          /\ \A i \in DOMAIN transformed_data :
                DictHas(transformed_data[i], "processed_value")

\* A run that extracted no rows, ended.
C5_Witness ==
    /\ pc = "done"
    /\ ExtractReturned
    /\ raw_data = <<>>
    /\ "warning_no_data" \in log

ExactlySeeds(t) ==
    /\ t.exists
    /\ t.cols = <<"id", "name", "value", "created_at">>
    /\ Len(t.rows) = 3
    /\ [i \in 1..3 |-> <<t.rows[i][2], t.rows[i][3]>>] =
          << <<StrV("Alice"), IntV(100)>>, <<StrV("Bob"), IntV(150)>>,
             <<StrV("Charlie"), IntV(200)>> >>

\* C6: starting without the table, after one or more calls of
\* setup_db_table that returned, the table holds exactly the 3 seed rows;
\* a call that finds the table leaves it as it is, whatever it holds.
C6_SetupIdempotent ==
    /\ []((~tableAtStart.exists /\ setupReturns >= 1) => ExactlySeeds(committed))
    /\ [][(pc = "setup" /\ committed.exists) => committed' = committed]_vars

\* Two calls returned, starting without the table.
C6_Witness ==
    /\ ~tableAtStart.exists
    /\ setupReturns = 2
    /\ run = 2
    /\ pc = "extract"

\* C7: an error in setup_db_table during the existence check, the creation
\* or the seeding is followed by a rollback that leaves the committed table
\* unchanged and nothing of the transaction visible, the cursor is closed,
\* and the error reaches the caller.
C7_SetupErrorRollsBack ==
    [][(pc = "setup" /\ pc' = "except") =>
          /\ committed' = committed
          /\ pending' = committed
          /\ cursors' = 0
          /\ exc'[1] = "setup_db_table"
          /\ exc'[2] \in {"check", "create", "seed"} => rolledBack']_vars

\* The seeding failed where no table existed.
C7_Witness ==
    /\ exc = <<"setup_db_table", "seed">>
    /\ rolledBack
    /\ ~committed.exists
    /\ cursors = 0

\* C8 as stated: for any record extract_data produces, transform_data does
\* not fail, and the record keeps its fields and their values and gains
\* exactly processed_value and processed_at_agent; without a field value,
\* processed_value is 0.
C8_TransformTotal ==
    "transform_data" \in CalledSet =>
        /\ TransformReturned
        /\ \A i \in DOMAIN raw_data :
            LET o == extract_data(pending)[i]
                r == raw_data[i]
            IN  /\ DictKeys(r) = DictKeys(o) \cup {"processed_value", "processed_at_agent"}
                /\ DictKeys(o) \cap {"processed_value", "processed_at_agent"} = {}
                /\ \A k \in DictKeys(o) : DictGet(r, k, NULL) = DictGet(o, k, NULL)
                /\ "value" \notin DictKeys(o) =>
                      DictGet(r, "processed_value", NULL) = FloatV(0)

LoadOpened ==
    /\ "load_data_simulated" \in CalledSet
    /\ exc /= <<"load_data_simulated", "open">>
    /\ caught /= <<"load_data_simulated", "open">>

\* C9 as stated: after any run ends, the file holds only lines written by
\* that run.
C9_FileOverwrittenEveryRun ==
    pc = "done" => \A i \in DOMAIN file : file[i].run = run

\* C9 as amended: once load_data_simulated has opened the file in a run,
\* the file holds only lines written by that run.
C9_FileOverwrittenByLoad ==
    LoadOpened => \A i \in DOMAIN file : file[i].run = run

\* A second run that wrote the file, ended.
C9_Witness ==
    /\ pc = "done"
    /\ run = 2
    /\ LoadOpened
    /\ file /= <<>>

LoadReturned ==
    /\ LastCalled = "load_data_simulated"
    /\ exc = NoExc
    /\ caught = NoExc

\* C10: after load_data_simulated returns for n records, the file holds
\* exactly n lines, line i the text of record i, and nothing older; an I/O
\* error reaches the caller.
C10_FileHoldsRecordsInOrder ==
    /\ LoadReturned =>
          /\ Len(file) = Len(transformed_data)
          /\ \A i \in DOMAIN file :
                file[i] = [text |-> Str(transformed_data[i]) \o "\n", run |-> run]
    /\ (LastCalled = "load_data_simulated" /\ ~LoadReturned) =>
          /\ exc[1] = "load_data_simulated" \/ caught[1] = "load_data_simulated"
          /\ exc[1] = "load_data_simulated" => pc = "except"

\* A second run wrote the three seed rows.
C10_Witness ==
    /\ LoadReturned
    /\ run = 2
    /\ Len(file) = 3

====
